---- MODULE Spec2Model ----
(***************************************************************************)
(* A model of the templ runtime (runtime.go): the children protocol that   *)
(* is threaded through context.Context, the rendered-items ledgers        *)
(* (StringSet) and the four emitters that consult them, the CSS            *)
(* middleware, the ComponentHandler HTTP adapter, and the sanitizers URL   *)
(* and Class.                                                              *)
(*                                                                         *)
(* A context.Context is an immutable chain of (key, value) nodes; the      *)
(* table ctxs holds every node built so far, a context is the index of    *)
(* its innermost node and 0 is context.Background().  A *StringSet is an   *)
(* address into heap.  The sink is the sequence of the strings written     *)
(* to it; a write either succeeds whole or fails whole.                    *)
(***************************************************************************)
EXTENDS Integers, Sequences, FiniteSets, TLC

VARIABLES
    ctxs,       \* the context nodes built so far (context.WithValue chains)
    heap,       \* heap[a]: the keys of the StringSet allocated at address a
    out,        \* the strings written to the sink w, in order
    last,       \* history: the last operation, its inputs and what it returned
    delivered,  \* history: <<emitter, where, name>> -> times the body of name reached the sink
    ncalls,     \* history: number of emitter calls made
    ch,         \* the ComponentHandler under construction / serving
    resp,       \* the http.ResponseWriter of the request being served
    cssm,       \* the CSSMiddleware: the classes registered with its CSSHandler
    reqCtx,     \* the context the middleware handed to the next handler (0: none yet)
    tree        \* history of the traversal of repeated component instances

ctxVars == <<ctxs, heap>>
emitVars == <<out, delivered, ncalls>>
httpVars == <<ch, resp>>
mwVars == <<cssm, reqCtx>>
vars == <<ctxs, heap, out, last, delivered, ncalls,
          ch, resp, cssm, reqCtx, tree>>

(***************************************************************************)
(* Bounds of the model.                                                    *)
(***************************************************************************)
MaxNodes == 3     \* context nodes built in one behaviour of the children protocol
MaxCtx == 2       \* context nodes built in one behaviour of a traversal with emitters
MaxCalls == 2     \* emitter calls (or renders) in one behaviour
MaxArgs == 2      \* length of a variadic argument list
MaxFailCalls == 1 \* emitter calls in one behaviour on a sink that may fail
MaxFailArgs == 1  \* length of an argument list on a sink that may fail
MaxInstances == 3 \* instances of one component in a rendered tree
MaxChunks == 2    \* body writes a component makes on an http.ResponseWriter
MaxRenderNodes == 3 \* context nodes built in one behaviour of interleaved renders
MaxRenderArgs == 1  \* length of an argument list in a behaviour of interleaved renders
MaxTokens == 3    \* pieces an input string of URL is put together from
MaxNameLen == 3   \* characters of an input name of Class
MaxItemArgs == 2  \* length of an argument list that is recorded
MaxSetCtx == 1    \* context nodes built in one behaviour with direct StringSet calls
MaxSetArgs == 1   \* length of an argument list in a behaviour with direct StringSet calls

(***************************************************************************)
(* Components.  A Component value is a ComponentFunc, NopComponent, or the *)
(* nil interface.  The user components write one fragment each.            *)
(***************************************************************************)
NilComponent == "nil"
NopComponent == "NopComponent"
UserComponents == {"A", "B"}

\* The nil error.
NoError == "nil"

\* Component.Render(ctx, w): what it writes and what it returns.  Calling
\* Render on the nil interface panics.
Render(component) ==
    IF component = NopComponent
    THEN [writes |-> <<>>, err |-> NoError, panics |-> FALSE]
    ELSE IF component = NilComponent
    THEN [writes |-> <<>>, err |-> NoError, panics |-> TRUE]
    ELSE [writes |-> <<"<" \o component \o "/>">>, err |-> NoError, panics |-> FALSE]

(***************************************************************************)
(* Context keys: each has its own Go type, so no two are equal.            *)
(***************************************************************************)
contextKeyChildren == [type |-> "childrenContextKey", v |-> "children"]
contextKeyRenderedClasses == [type |-> "cssContextKey", v |-> "renderedClasses"]
contextKeyRenderedItems == [type |-> "renderedItemsContextKey", v |-> "0"]
contextKeyRenderedScripts == [type |-> "scriptContextKey", v |-> "scripts"]

\* Values stored in a context: the untyped nil, a *Component, a *StringSet.
NilValue == [kind |-> "nil"]
\* &children is never a nil pointer (null = FALSE).
ComponentPtr(component) == [kind |-> "*Component", null |-> FALSE, comp |-> component]
StringSetPtr(addr) == [kind |-> "*StringSet", addr |-> addr]

Background == 0
Contexts == 0 .. Len(ctxs)

\* context.WithValue(parent, key, val): a new node; the parent is untouched.
\* The field by records the runtime function that built the node.
WithValue(parent, key, val, by) ==
    Append(ctxs, [parent |-> parent, key |-> key, val |-> val, by |-> by])

\* ctx.Value(key) on a table of nodes: the value of the nearest node with that key.
RECURSIVE ValueIn(_, _, _)
ValueIn(table, ctx, key) ==
    IF ctx = Background THEN NilValue
    ELSE IF table[ctx].key = key THEN table[ctx].val
    ELSE ValueIn(table, table[ctx].parent, key)

Value(ctx, key) == ValueIn(ctxs, ctx, key)

\* WithChildren(ctx, children): returns the context table with the new node;
\* the context returned to the caller is the last node.
WithChildrenShared(ctx, children) ==
    IF ctx = Background
    THEN WithValue(ctx, contextKeyChildren, ComponentPtr(children), "WithChildren")
    ELSE Append([ctxs EXCEPT ![ctx] = [parent |-> ctxs[ctx].parent,
                                       key |-> contextKeyChildren,
                                       val |-> ComponentPtr(children),
                                       by |-> ctxs[ctx].by]],
                [parent |-> ctx, key |-> contextKeyChildren,
                 val |-> ComponentPtr(children), by |-> "WithChildren"])

WithChildren(ctx, children) ==
    WithValue(ctx, contextKeyChildren, ComponentPtr(children), "WithChildren")

ClearChildrenWrongKey(ctx) ==
    WithValue(ctx, contextKeyRenderedScripts, NilValue, "ClearChildren")

ClearChildren(ctx) ==
    WithValue(ctx, contextKeyChildren, NilValue, "ClearChildren")

\* GetChildren(ctx) evaluated on a table of nodes.
GetChildrenOfParent(table, ctx) ==
    LET v == IF ctx = Background THEN NilValue
             ELSE ValueIn(table, table[ctx].parent, contextKeyChildren)
        ok == v.kind = "*Component"
    IN  IF ~ok \/ v.null THEN NopComponent ELSE v.comp

GetChildrenIn(table, ctx) ==
    LET v == ValueIn(table, ctx, contextKeyChildren)
        ok == v.kind = "*Component"
    IN  IF ~ok \/ v.null THEN NopComponent ELSE v.comp

GetChildren(ctx) == GetChildrenIn(ctxs, ctx)

(***************************************************************************)
(* StringSet.  The map ss is modelled by the set of its keys; a nil map    *)
(* reads as the empty set and Add allocates it.                            *)
(***************************************************************************)
Add(ss, s) == ss \cup {s}
Contains(ss, s) == s \in ss
AddScriptAsClass(ss, s) == Add(ss, "class_" \o s)
AddScript(ss, s) == Add(ss, "script_" \o s)
ContainsScriptOtherPrefix(ss, s) == Contains(ss, "scripts_" \o s)
ContainsScript(ss, s) == Contains(ss, "script_" \o s)
AddClassForgets(ss, s) == ss
AddClass(ss, s) == Add(ss, "class_" \o s)
ContainsClass(ss, s) == Contains(ss, "class_" \o s)

(***************************************************************************)
(* CSS classes and scripts handed to the emitters.                         *)
(***************************************************************************)
ConstantCSSClass(name) == [type |-> "ConstantCSSClass", name |-> name]
ComponentCSSClass(id, class) == [type |-> "ComponentCSSClass", ID |-> id, Class |-> class]
ClassName(c) == IF c.type = "ComponentCSSClass" THEN c.ID ELSE c.name
ComponentScript(name, function) ==
    [Name |-> name, Function |-> function, Call |-> name \o "()"]

\* The inputs of the model: two classes with a body, one with an empty body,
\* one constant class (no body); two scripts with a function, one without.
\* A class name determines its body (CSSID derives the one from the other).
ComponentClasses ==
    { ComponentCSSClass("a", ".a{color:red;}"),
      ComponentCSSClass("b", ".b{color:blue;}"),
      ComponentCSSClass("e", "") }
Classes == ComponentClasses \cup { ConstantCSSClass("k") }
Scripts ==
    { ComponentScript("a", "function a(){}"),
      ComponentScript("b", "function b(){}"),
      ComponentScript("e", "") }

SeqsUpTo(S, n) == UNION { [1 .. k -> S] : k \in 0 .. n }
ClassLists(n) == SeqsUpTo(Classes, n)
ScriptLists(n) == SeqsUpTo(Scripts, n)

styleOpen == "<style type=\"text/css\">"
styleClose == "</style>"
scriptOpen == "<script type=\"text/javascript\">"
scriptClose == "</script>"

\* The sink: write number k of a call fails when failAt = k, with the error
\* of that write; failAt = 0 is a sink whose writes all succeed.
FailChoices == 0 .. 3
WriteError(k) == <<"write 1 failed", "write 2 failed", "write 3 failed">>[k]

\* The tail of every emitter: if the buffer is not empty, write the opening
\* tag, the buffer and the closing tag, returning at the first failed write.
WriteBlockIgnoringError(open, sb, close, failAt) ==
    IF Len(sb) > 0
    THEN [writes |-> IF failAt = 1 THEN <<sb, close>>
                     ELSE IF failAt = 2 THEN <<open, close>>
                     ELSE IF failAt = 3 THEN <<open, sb>>
                     ELSE <<open, sb, close>>,
          attempted |-> 3, err |-> NoError]
    ELSE [writes |-> <<>>, attempted |-> 0, err |-> NoError]

WriteBlock(open, sb, close, failAt) ==
    IF Len(sb) > 0
    THEN IF failAt \in 1 .. 3
         THEN [writes |-> SubSeq(<<open, sb, close>>, 1, failAt - 1),
               attempted |-> failAt, err |-> WriteError(failAt)]
         ELSE [writes |-> <<open, sb, close>>, attempted |-> 3, err |-> NoError]
    ELSE [writes |-> <<>>, attempted |-> 0, err |-> NoError]

\* The loop of RenderCSSItems over its classes: rc is the ledger, sb the
\* buffer, names the classes whose body went into the buffer, in order.
RECURSIVE CSSItemsLoopAddingLate(_, _, _, _)
CSSItemsLoopAddingLate(classes, rc, sb, names) ==
    IF classes = <<>>
    THEN [rc |-> rc \cup { "class_" \o names[i] : i \in DOMAIN names }, sb |-> sb, names |-> names]
    ELSE LET c == Head(classes) IN
         IF c.type = "ComponentCSSClass" /\ ~ContainsClass(rc, ClassName(c))
         THEN CSSItemsLoopAddingLate(Tail(classes), rc, sb \o c.Class, Append(names, ClassName(c)))
         ELSE CSSItemsLoopAddingLate(Tail(classes), rc, sb, names)

RECURSIVE CSSItemsLoop(_, _, _, _)
CSSItemsLoop(classes, rc, sb, names) ==
    IF classes = <<>> THEN [rc |-> rc, sb |-> sb, names |-> names]
    ELSE LET c == Head(classes) IN
         IF c.type = "ComponentCSSClass" /\ ~ContainsClass(rc, ClassName(c))
         THEN CSSItemsLoop(Tail(classes), AddClass(rc, ClassName(c)),
                           sb \o c.Class, Append(names, ClassName(c)))
         ELSE CSSItemsLoop(Tail(classes), rc, sb, names)

\* The loop of the deprecated RenderCSS.
RECURSIVE CSSLoop(_, _, _, _)
CSSLoop(classes, rc, sb, names) ==
    IF classes = <<>> THEN [rc |-> rc, sb |-> sb, names |-> names]
    ELSE LET c == Head(classes) IN
         IF c.type = "ComponentCSSClass" /\ ~Contains(rc, ClassName(c))
         THEN CSSLoop(Tail(classes), Add(rc, ClassName(c)),
                      sb \o c.Class, Append(names, ClassName(c)))
         ELSE CSSLoop(Tail(classes), rc, sb, names)

RECURSIVE ScriptItemsLoop(_, _, _, _)
ScriptItemsLoop(scripts, rs, sb, names) ==
    IF scripts = <<>> THEN [rc |-> rs, sb |-> sb, names |-> names]
    ELSE LET s == Head(scripts) IN
         IF ~ContainsScript(rs, s.Name)
         THEN ScriptItemsLoop(Tail(scripts), AddScript(rs, s.Name),
                              sb \o s.Function, Append(names, s.Name))
         ELSE ScriptItemsLoop(Tail(scripts), rs, sb, names)

\* The loop of the deprecated RenderScripts.
RECURSIVE ScriptsLoop(_, _, _, _)
ScriptsLoop(scripts, rs, sb, names) ==
    IF scripts = <<>> THEN [rc |-> rs, sb |-> sb, names |-> names]
    ELSE LET s == Head(scripts) IN
         IF ~Contains(rs, s.Name)
         THEN ScriptsLoop(Tail(scripts), Add(rs, s.Name),
                          sb \o s.Function, Append(names, s.Name))
         ELSE ScriptsLoop(Tail(scripts), rs, sb, names)

\* What an emitter call leaves behind: the heap, the buffer, the strings that reached the
\* sink, the number of writes attempted, the error returned, the names whose
\* body went into the buffer, whether the ledger came from the context and,
\* if so, its address.
Returned(h, sb, block, names, found, addr) ==
    [heap |-> h, buffer |-> sb, writes |-> block.writes, attempted |-> block.attempted,
     err |-> block.err, names |-> names, found |-> found, addr |-> addr]

NothingToDo(h) == Returned(h, "", [writes |-> <<>>, attempted |-> 0, err |-> NoError], <<>>, FALSE, 0)

\* A ledger looked up under key, or a fresh one when the context has none.
\* h is the memory the call works on.  A fresh ledger that is not attached to a context the caller keeps is
\* unreachable once the emitter returns, so it leaves the heap as it was.
LedgerAt(h, ctx, key) ==
    LET v == Value(ctx, key)
        ok == v.kind = "*StringSet"
    IN  [ok |-> ok, addr |-> IF ok THEN v.addr ELSE 0, ss |-> IF ok THEN h[v.addr] ELSE {}]

Stored(h, ledger, ss) == IF ledger.ok THEN [h EXCEPT ![ledger.addr] = ss] ELSE h

RenderCSSItemsRollback(h, ctx, classes, failAt) ==
    IF Len(classes) = 0 THEN NothingToDo(h)
    ELSE LET rc == LedgerAt(h, ctx, contextKeyRenderedItems)
             l == CSSItemsLoop(classes, rc.ss, "", <<>>)
             block == WriteBlock(styleOpen, l.sb, styleClose, failAt)
         IN  Returned(IF block.err = NoError THEN Stored(h, rc, l.rc) ELSE h, l.sb, block,
                      l.names, rc.ok, rc.addr)

RenderCSSItems(h, ctx, classes, failAt) ==
    IF Len(classes) = 0 THEN NothingToDo(h)
    ELSE LET rc == LedgerAt(h, ctx, contextKeyRenderedItems)
             l == CSSItemsLoop(classes, rc.ss, "", <<>>)
         IN  Returned(Stored(h, rc, l.rc), l.sb, WriteBlock(styleOpen, l.sb, styleClose, failAt),
                      l.names, rc.ok, rc.addr)

RenderScriptItems(h, ctx, scripts, failAt) ==
    IF Len(scripts) = 0 THEN NothingToDo(h)
    ELSE LET rs == LedgerAt(h, ctx, contextKeyRenderedItems)
             l == ScriptItemsLoop(scripts, rs.ss, "", <<>>)
         IN  Returned(Stored(h, rs, l.rc), l.sb, WriteBlock(scriptOpen, l.sb, scriptClose, failAt),
                      l.names, rs.ok, rs.addr)

\* RenderedCSSClassesFromContext / RenderedScriptsFromContext: the ledger of
\* the context under key, or a new context carrying a new, empty ledger.
RenderedFromContext(h, ctx, key, by) ==
    LET v == Value(ctx, key) IN
    IF v.kind = "*StringSet"
    THEN [ctxs |-> ctxs, heap |-> h, ctx |-> ctx, rc |-> v.addr]
    ELSE [ctxs |-> WithValue(ctx, key, StringSetPtr(Len(h) + 1), by),
          heap |-> Append(h, {}), ctx |-> Len(ctxs) + 1, rc |-> Len(h) + 1]

RenderedCSSClassesFromContext(h, ctx) ==
    RenderedFromContext(h, ctx, contextKeyRenderedClasses, "RenderedCSSClassesFromContext")

RenderedScriptsFromContext(h, ctx) ==
    RenderedFromContext(h, ctx, contextKeyRenderedScripts, "RenderedScriptsFromContext")

\* RenderCSS drops the context RenderedCSSClassesFromContext returns: a ledger
\* created there is lost when RenderCSS returns.
RenderCSS(h, ctx, classes, failAt) ==
    IF Len(classes) = 0 THEN NothingToDo(h)
    ELSE LET r == RenderedCSSClassesFromContext(h, ctx)
             found == r.ctx = ctx
             l == CSSLoop(classes, r.heap[r.rc], "", <<>>)
         IN  Returned(IF found THEN [h EXCEPT ![r.rc] = l.rc] ELSE h, l.sb,
                      WriteBlock(styleOpen, l.sb, styleClose, failAt), l.names, found, IF found THEN r.rc ELSE 0)

RenderScripts(h, ctx, scripts, failAt) ==
    IF Len(scripts) = 0 THEN NothingToDo(h)
    ELSE LET r == RenderedScriptsFromContext(h, ctx)
             found == r.ctx = ctx
             l == ScriptsLoop(scripts, r.heap[r.rc], "", <<>>)
         IN  Returned(IF found THEN [h EXCEPT ![r.rc] = l.rc] ELSE h, l.sb,
                      WriteBlock(scriptOpen, l.sb, scriptClose, failAt), l.names, found, IF found THEN r.rc ELSE 0)

\* InitializeRenderedItemsContext(ctx): the context itself when it carries a
\* combined ledger, otherwise a new context with a new, empty one.
InitializeAlwaysNew(ctx) ==
    [ctxs |-> WithValue(ctx, contextKeyRenderedItems, StringSetPtr(Len(heap) + 1),
                        "InitializeRenderedItemsContext"),
     heap |-> Append(heap, {}), ctx |-> Len(ctxs) + 1]

InitializeSharedLedger(ctx) ==
    LET v == Value(ctx, contextKeyRenderedItems) IN
    IF v.kind = "*StringSet"
    THEN [ctxs |-> ctxs, heap |-> heap, ctx |-> ctx]
    ELSE IF Len(heap) > 0
    THEN [ctxs |-> WithValue(ctx, contextKeyRenderedItems, StringSetPtr(1),
                             "InitializeRenderedItemsContext"),
          heap |-> heap, ctx |-> Len(ctxs) + 1]
    ELSE [ctxs |-> WithValue(ctx, contextKeyRenderedItems, StringSetPtr(1),
                             "InitializeRenderedItemsContext"),
          heap |-> <<{}>>, ctx |-> 1]

InitializeRenderedItemsContext(ctx) ==
    LET v == Value(ctx, contextKeyRenderedItems) IN
    IF v.kind = "*StringSet"
    THEN [ctxs |-> ctxs, heap |-> heap, ctx |-> ctx]
    ELSE [ctxs |-> WithValue(ctx, contextKeyRenderedItems, StringSetPtr(Len(heap) + 1),
                             "InitializeRenderedItemsContext"),
          heap |-> Append(heap, {}), ctx |-> Len(ctxs) + 1]

(***************************************************************************)
(* Actions on contexts.                                                    *)
(***************************************************************************)
NoOperation == [op |-> "none"]

WithChildrenAct(Components, Limit) ==
    \E ctx \in Contexts, children \in Components :
        /\ Len(ctxs) < Limit
        /\ ctxs' = WithChildren(ctx, children)
        /\ last' = [op |-> "WithChildren", ctx |-> ctx, arg |-> children,
                    ret |-> Len(ctxs) + 1]
        /\ UNCHANGED <<heap, emitVars, httpVars, mwVars, tree>>

ClearChildrenAct(Limit) ==
    \E ctx \in Contexts :
        /\ Len(ctxs) < Limit
        /\ ctxs' = ClearChildren(ctx)
        /\ last' = [op |-> "ClearChildren", ctx |-> ctx, ret |-> Len(ctxs) + 1]
        /\ UNCHANGED <<heap, emitVars, httpVars, mwVars, tree>>

InitializeAct(Limit) ==
    \E ctx \in Contexts :
        LET r == InitializeRenderedItemsContext(ctx) IN
        /\ Len(r.ctxs) <= Limit
        /\ ctxs' = r.ctxs
        /\ heap' = r.heap
        /\ last' = [op |-> "InitializeRenderedItemsContext", ctx |-> ctx, ret |-> r.ctx]
        /\ UNCHANGED <<emitVars, httpVars, mwVars, tree>>

\* A caller of the deprecated API keeps the context that carries the legacy
\* ledger (as CSSMiddleware does for the classes).
RenderedCSSClassesFromContextAct(Limit) ==
    \E ctx \in Contexts :
        LET r == RenderedCSSClassesFromContext(heap, ctx) IN
        /\ Len(r.ctxs) <= Limit
        /\ ctxs' = r.ctxs
        /\ heap' = r.heap
        /\ last' = [op |-> "RenderedCSSClassesFromContext", ctx |-> ctx, ret |-> r.ctx]
        /\ UNCHANGED <<emitVars, httpVars, mwVars, tree>>

RenderedScriptsFromContextAct(Limit) ==
    \E ctx \in Contexts :
        LET r == RenderedScriptsFromContext(heap, ctx) IN
        /\ Len(r.ctxs) <= Limit
        /\ ctxs' = r.ctxs
        /\ heap' = r.heap
        /\ last' = [op |-> "RenderedScriptsFromContext", ctx |-> ctx, ret |-> r.ctx]
        /\ UNCHANGED <<emitVars, httpVars, mwVars, tree>>

\* A component renders the children it was given: GetChildren(ctx).Render(ctx, w).
RenderChildrenAct ==
    \E ctx \in Contexts :
        LET component == GetChildren(ctx)
            r == Render(component)
        IN  /\ ncalls < MaxCalls
            /\ ncalls' = ncalls + 1
            /\ out' = IF r.panics THEN out ELSE out \o r.writes
            /\ last' = [op |-> "RenderChildren", ctx |-> ctx, got |-> component,
                        writes |-> r.writes, err |-> r.err, panics |-> r.panics]
            /\ UNCHANGED <<ctxVars, delivered, httpVars, mwVars, tree>>

\* The contexts that carry a combined ledger: those derived from a context
\* InitializeRenderedItemsContext returned.
Initialized == { c \in Contexts : Value(c, contextKeyRenderedItems).kind = "*StringSet" }

(***************************************************************************)
(* Emitter calls.                                                          *)
(***************************************************************************)
Range(f) == { f[i] : i \in DOMAIN f }
Count(k) == IF k \in DOMAIN delivered THEN delivered[k] ELSE 0

\* Where a call kept its ledger: the address of the ledger its context
\* carries, or, without one, the context it was called with.
OnLedger(addr) == <<"ledger", addr>>
OnContext(ctx) == <<"context", ctx>>

\* The bookkeeping common to the four emitter calls: r is what the call
\* returned, bodied the names among its inputs that carry a body, kept what
\* the record of the call keeps of its argument list.
EmittedKeeping(op, ctx, args, failAt, r, bodied, kept) ==
    LET where == IF r.found THEN OnLedger(r.addr) ELSE OnContext(ctx)
        reached == IF Len(r.writes) >= 2
                   THEN { <<op, where, n>> : n \in Range(r.names) } ELSE {}
    IN  /\ ncalls < MaxCalls
        /\ ncalls' = ncalls + 1
        /\ heap' = r.heap
        /\ out' = out \o r.writes
        /\ delivered' = [k \in DOMAIN delivered \cup reached |->
                            Count(k) + (IF k \in reached THEN 1 ELSE 0)]
        /\ last' = [op |-> op, ctx |-> ctx, failAt |-> failAt,
                    buffer |-> r.buffer, writes |-> r.writes, attempted |-> r.attempted, err |-> r.err,
                    names |-> r.names, found |-> r.found, where |-> where,
                    passed |-> bodied, args |-> kept]
        /\ UNCHANGED <<ctxs, httpVars, mwVars, tree>>

\* The record of a call keeps the argument list only where a property reads it.
Emitted(op, ctx, args, failAt, r, bodied) ==
    EmittedKeeping(op, ctx, args, failAt, r, bodied, <<>>)

BodiedClasses(classes) ==
    { ClassName(c) : c \in { x \in Range(classes) : x.type = "ComponentCSSClass" } }
ScriptNames(scripts) == { s.Name : s \in Range(scripts) }

RenderCSSItemsAct(From, Lists, Fails) ==
    \E ctx \in From, classes \in Lists, failAt \in Fails :
        Emitted("RenderCSSItems", ctx, classes, failAt,
                RenderCSSItems(heap, ctx, classes, failAt), BodiedClasses(classes))

RenderScriptItemsAct(From, Lists, Fails) ==
    \E ctx \in From, scripts \in Lists, failAt \in Fails :
        Emitted("RenderScriptItems", ctx, scripts, failAt,
                RenderScriptItems(heap, ctx, scripts, failAt), ScriptNames(scripts))

RenderCSSAct(From, Lists, Fails) ==
    \E ctx \in From, classes \in Lists, failAt \in Fails :
        Emitted("RenderCSS", ctx, classes, failAt,
                RenderCSS(heap, ctx, classes, failAt), BodiedClasses(classes))

RenderScriptsAct(From, Lists, Fails) ==
    \E ctx \in From, scripts \in Lists, failAt \in Fails :
        Emitted("RenderScripts", ctx, scripts, failAt,
                RenderScripts(heap, ctx, scripts, failAt), ScriptNames(scripts))

(***************************************************************************)
(* The state after construction.                                           *)
(***************************************************************************)
Init ==
    /\ ctxs = <<>>
    /\ heap = <<>>
    /\ out = <<>>
    /\ last = NoOperation
    /\ delivered = <<>>
    /\ ncalls = 0
    /\ ch = NoOperation
    /\ resp = NoOperation
    /\ cssm = <<>>
    /\ reqCtx = 0
    /\ tree = NoOperation

(***************************************************************************)
(* SpecChildren: the children protocol.                                    *)
(***************************************************************************)
NextChildren ==
    \/ WithChildrenAct(UserComponents \cup {NilComponent}, MaxNodes)
    \/ ClearChildrenAct(MaxNodes)
    \/ InitializeAct(MaxNodes)
    \/ RenderChildrenAct

SpecChildren == Init /\ [][NextChildren]_vars

(***************************************************************************)
(* SpecStyle: one traversal on a sink whose writes succeed, calling        *)
(* RenderCSSItems on the contexts built by InitializeRenderedItemsContext  *)
(* and WithChildren.                                                       *)
(***************************************************************************)
NextStyle ==
    \/ InitializeAct(MaxCtx)
    \/ WithChildrenAct({"A"}, MaxCtx)
    \/ RenderCSSItemsAct(Initialized, ClassLists(MaxArgs), {0})

SpecStyle == Init /\ [][NextStyle]_vars

(***************************************************************************)
(* SpecFail: the four emitters on a sink that may fail.                    *)
(***************************************************************************)
NextFail ==
    \/ InitializeAct(MaxCtx)
    \/ ncalls < MaxFailCalls /\ RenderCSSItemsAct(Contexts, ClassLists(MaxFailArgs), FailChoices)
    \/ ncalls < MaxFailCalls /\ RenderScriptItemsAct(Contexts, ScriptLists(MaxFailArgs), FailChoices)
    \/ ncalls < MaxFailCalls /\ RenderCSSAct(Contexts, ClassLists(MaxFailArgs), FailChoices)
    \/ ncalls < MaxFailCalls /\ RenderScriptsAct(Contexts, ScriptLists(MaxFailArgs), FailChoices)

SpecFail == Init /\ [][NextFail]_vars

(***************************************************************************)
(* SpecLedgers: the four emitters, on a sink whose writes succeed, called  *)
(* with contexts that carry a combined ledger, a legacy ledger, or none.   *)
(***************************************************************************)
NextLedgers ==
    \/ InitializeAct(MaxCtx)
    \/ RenderedCSSClassesFromContextAct(MaxCtx)
    \/ RenderedScriptsFromContextAct(MaxCtx)
    \/ RenderCSSItemsAct(Contexts, ClassLists(MaxArgs), {0})
    \/ RenderScriptItemsAct(Contexts, ScriptLists(MaxArgs), {0})
    \/ RenderCSSAct(Contexts, ClassLists(MaxArgs), {0})
    \/ RenderScriptsAct(Contexts, ScriptLists(MaxArgs), {0})

SpecLedgers == Init /\ [][NextLedgers]_vars

(***************************************************************************)
(* SpecTree: a tree of instances of one component under initialized        *)
(* contexts, on a sink whose writes succeed.  Each instance emits the      *)
(* component's class and script and then writes its own markup.            *)
(***************************************************************************)
TreeComponents == [class : ComponentClasses, script : Scripts]
instanceMarkup == "<div></div>"

\* The Render of one instance: RenderCSSItems, RenderScriptItems, markup;
\* the first error ends it.
RenderInstance(h, ctx, component) ==
    LET css == RenderCSSItems(h, ctx, <<component.class>>, 0)
        js == RenderScriptItems(css.heap, ctx, <<component.script>>, 0)
    IN  IF css.err # NoError THEN [heap |-> css.heap, writes |-> css.writes, err |-> css.err]
        ELSE IF js.err # NoError
        THEN [heap |-> js.heap, writes |-> css.writes \o js.writes, err |-> js.err]
        ELSE [heap |-> js.heap, writes |-> css.writes \o js.writes \o <<instanceMarkup>>,
              err |-> NoError]

RenderInstanceAct ==
    \E ctx \in Initialized :
        LET r == RenderInstance(heap, ctx, tree.comp) IN
        /\ Len(tree.starts) < MaxInstances
        /\ tree' = [tree EXCEPT !.starts = Append(@, Len(out))]
        /\ heap' = r.heap
        /\ out' = out \o r.writes
        /\ last' = [op |-> "RenderInstance", ctx |-> ctx, writes |-> r.writes, err |-> r.err]
        /\ UNCHANGED <<ctxs, delivered, ncalls, httpVars, mwVars>>

InitTree ==
    /\ ctxs = <<>>
    /\ heap = <<>>
    /\ out = <<>>
    /\ last = NoOperation
    /\ delivered = <<>>
    /\ ncalls = 0
    /\ ch = NoOperation
    /\ resp = NoOperation
    /\ cssm = <<>>
    /\ reqCtx = 0
    /\ tree \in [comp : TreeComponents, starts : {<<>>}]

NextTree ==
    \/ InitializeAct(MaxCtx)
    \/ WithChildrenAct({"A"}, MaxCtx)
    \/ ClearChildrenAct(MaxCtx)
    \/ RenderInstanceAct

SpecTree == InitTree /\ [][NextTree]_vars

(***************************************************************************)
(* SpecMiddleware: requests through CSSMiddleware; the next handler calls  *)
(* the style emitters with the request context it was given.               *)
(***************************************************************************)
stylesheetPath == "/styles/templ.css"
RequestPaths == {stylesheetPath, "/"}

RECURSIVE AddAll(_, _)
AddAll(ss, classes) ==
    IF classes = <<>> THEN ss ELSE AddAll(Add(ss, ClassName(Head(classes))), Tail(classes))

RECURSIVE Bodies(_)
Bodies(classes) ==
    IF classes = <<>> THEN <<>> ELSE <<Head(classes).Class>> \o Bodies(Tail(classes))

\* CSSHandler.ServeHTTP: the stylesheet of the registered classes.
CSSHandlerServeHTTP(classes) ==
    [header |-> <<"text/css">>, body |-> Bodies(classes)]

\* CSSMiddleware.ServeHTTP up to the call of Next: the stylesheet for Path,
\* otherwise the request context with the registered classes added to the
\* ledger RenderedCSSClassesFromContext finds or creates.
CSSMiddlewareServeHTTP(h, path, ctx, classes) ==
    IF path = stylesheetPath
    THEN [ctxs |-> ctxs, heap |-> h, next |-> FALSE, ctx |-> ctx,
          resp |-> CSSHandlerServeHTTP(classes)]
    ELSE LET r == RenderedCSSClassesFromContext(h, ctx) IN
         [ctxs |-> r.ctxs, heap |-> [r.heap EXCEPT ![r.rc] = AddAll(@, classes)],
          next |-> TRUE, ctx |-> r.ctx, resp |-> resp]

CSSMiddlewareAct ==
    \E path \in RequestPaths, ctx \in Contexts :
        LET r == CSSMiddlewareServeHTTP(heap, path, ctx, cssm) IN
        /\ Len(r.ctxs) <= MaxCtx
        /\ ctxs' = r.ctxs
        /\ heap' = r.heap
        /\ resp' = r.resp
        /\ reqCtx' = IF r.next THEN r.ctx ELSE reqCtx
        /\ last' = [op |-> "CSSMiddleware", path |-> path, ctx |-> ctx, next |-> r.next]
        /\ UNCHANGED <<emitVars, ch, cssm, tree>>

\* The contexts the next handler was given.
Given == IF reqCtx = 0 THEN {} ELSE {reqCtx}

InitMiddleware ==
    /\ ctxs = <<>>
    /\ heap = <<>>
    /\ out = <<>>
    /\ last = NoOperation
    /\ delivered = <<>>
    /\ ncalls = 0
    /\ ch = NoOperation
    /\ resp = NoOperation
    /\ cssm \in SeqsUpTo(ComponentClasses, MaxArgs) \ {<<>>}
    /\ reqCtx = 0
    /\ tree = NoOperation

NextMiddleware ==
    \/ InitializeAct(MaxCtx)
    \/ CSSMiddlewareAct
    \/ RenderCSSItemsAct(Given, ClassLists(MaxArgs), {0})
    \/ RenderCSSAct(Given, ClassLists(MaxArgs), {0})

SpecMiddleware == InitMiddleware /\ [][NextMiddleware]_vars

(***************************************************************************)
(* SpecHTTP: ComponentHandler.  The http.ResponseWriter keeps the header   *)
(* map the handler edits, and, once WriteHeader or the first Write has     *)
(* committed the header, the status and the header as sent; later edits    *)
(* of the map and later calls of WriteHeader change nothing that is sent.  *)
(* Of the header map only Content-Type is kept.                            *)
(***************************************************************************)
StatusOK == 200
StatusInternalServerError == 500
componentHandlerErrorMessage == "templ: failed to render template"

NewResponseWriter ==
    [header |-> <<>>, wroteHeader |-> FALSE, status |-> 0, sent |-> <<>>, body |-> <<>>]

HeaderAdd(w, value) == [w EXCEPT !.header = Append(@, value)]
HeaderSet(w, value) == [w EXCEPT !.header = <<value>>]
WriteHeader(w, code) ==
    IF w.wroteHeader THEN w
    ELSE [w EXCEPT !.wroteHeader = TRUE, !.status = code, !.sent = w.header]
Write(w, bytes) ==
    LET c == IF w.wroteHeader THEN w ELSE WriteHeader(w, StatusOK)
    IN  [c EXCEPT !.body = Append(@, bytes)]

\* http.Error(w, message, code)
HttpError(w, message, code) ==
    Write(WriteHeader(HeaderSet(w, "text/plain; charset=utf-8"), code), message \o "\n")

\* The components served: each writes some chunks and then returns an error or nil.
HTTPComponents == [chunks : 0 .. MaxChunks, fails : BOOLEAN]
renderError == "render failed"

RECURSIVE WriteChunks(_, _)
WriteChunks(w, n) == IF n = 0 THEN w ELSE WriteChunks(Write(w, "<p/>"), n - 1)

ComponentRender(component, w) ==
    [w |-> WriteChunks(w, component.chunks),
     err |-> IF component.fails THEN renderError ELSE NoError]

\* The handler a configured ErrorHandler returns.
customErrorStatus == "custom error handler"
ErrorHandlerServeHTTP(w) == Write(w, customErrorStatus)

\* Handler(c, options...) before the options are applied.
Handler(c) ==
    [Component |-> c, Status |-> 0, ContentType |-> "text/html", ErrorHandler |-> FALSE]

\* ComponentHandler.ServeHTTP
ServeHTTP(h, w) ==
    LET w1 == IF h.Status # 0 THEN WriteHeader(w, h.Status) ELSE w
        w2 == HeaderAdd(w1, h.ContentType)
        r == ComponentRender(h.Component, w2)
    IN  IF r.err # NoError
        THEN IF h.ErrorHandler THEN ErrorHandlerServeHTTP(r.w)
             ELSE HttpError(r.w, componentHandlerErrorMessage, StatusInternalServerError)
        ELSE r.w

\* The server commits the header when the handler returns without having done so.
FinishRequest(w) == IF w.wroteHeader THEN w ELSE WriteHeader(w, StatusOK)

Statuses == {0, 201, 404}
ContentTypes == {"text/html", "application/json", "text/plain"}

WithStatusAct ==
    \E status \in Statuses :
        /\ resp = NoOperation
        /\ ch' = [ch EXCEPT !.Status = status]
        /\ last' = [op |-> "WithStatus"]
        /\ UNCHANGED <<ctxVars, emitVars, resp, mwVars, tree>>

WithContentTypeAct ==
    \E contentType \in ContentTypes :
        /\ resp = NoOperation
        /\ ch' = [ch EXCEPT !.ContentType = contentType]
        /\ last' = [op |-> "WithContentType"]
        /\ UNCHANGED <<ctxVars, emitVars, resp, mwVars, tree>>

WithErrorHandlerAct ==
    /\ resp = NoOperation
    /\ ch' = [ch EXCEPT !.ErrorHandler = TRUE]
    /\ last' = [op |-> "WithErrorHandler"]
    /\ UNCHANGED <<ctxVars, emitVars, resp, mwVars, tree>>

ServeHTTPAct ==
    /\ resp' = FinishRequest(ServeHTTP(ch, NewResponseWriter))
    /\ last' = [op |-> "ServeHTTP"]
    /\ UNCHANGED <<ctxVars, emitVars, ch, mwVars, tree>>

InitHTTP ==
    /\ ctxs = <<>>
    /\ heap = <<>>
    /\ out = <<>>
    /\ last = NoOperation
    /\ delivered = <<>>
    /\ ncalls = 0
    /\ ch \in { Handler(c) : c \in HTTPComponents }
    /\ resp = NoOperation
    /\ cssm = <<>>
    /\ reqCtx = 0
    /\ tree = NoOperation

NextHTTP ==
    \/ WithStatusAct
    \/ WithContentTypeAct
    \/ WithErrorHandlerAct
    \/ ServeHTTPAct

SpecHTTP == InitHTTP /\ [][NextHTTP]_vars

(***************************************************************************)
(* SpecSet: one traversal whose combined ledger is written by the emitters *)
(* and by direct calls of StringSet.AddClass and StringSet.AddScript, with *)
(* names that look like each other's ledger keys.                          *)
(***************************************************************************)
SetNames == {"a", "script_a"}
SetClasses == { c \in Classes : c.type = "ConstantCSSClass" \/ ClassName(c) \in SetNames }
SetScripts == { x \in Scripts : x.Name \in SetNames }

AddClassAct ==
    \E addr \in 1 .. Len(heap), name \in SetNames :
        /\ heap' = [heap EXCEPT ![addr] = AddClass(@, name)]
        /\ last' = [op |-> "AddClass", addr |-> addr, name |-> name]
        /\ UNCHANGED <<ctxs, emitVars, httpVars, mwVars, tree>>

AddScriptAct ==
    \E addr \in 1 .. Len(heap), name \in SetNames :
        /\ heap' = [heap EXCEPT ![addr] = AddScript(@, name)]
        /\ last' = [op |-> "AddScript", addr |-> addr, name |-> name]
        /\ UNCHANGED <<ctxs, emitVars, httpVars, mwVars, tree>>

NextSet ==
    \/ InitializeAct(MaxSetCtx)
    \/ AddClassAct
    \/ AddScriptAct
    \/ RenderCSSItemsAct(Initialized, SeqsUpTo(SetClasses, MaxSetArgs), {0})
    \/ RenderScriptItemsAct(Initialized, SeqsUpTo(SetScripts, MaxSetArgs), {0})

SpecSet == Init /\ [][NextSet]_vars

(***************************************************************************)
(* SpecRenders: independent top-level renders, interleaved.  Each starts   *)
(* with InitializeRenderedItemsContext(context.Background()); the steps of  *)
(* the renders (setting children, rendering them, emitting classes and     *)
(* scripts) are taken in any order, on a sink whose writes succeed.        *)
(***************************************************************************)
\* What the renders emit: a class and a script of the same name, and a
\* class with an empty body.
RenderedClasses == { c \in ComponentClasses : c.ID \in {"a", "e"} }
RenderedScripts == { x \in Scripts : x.Name = "a" }

NextRenders ==
    \/ InitializeAct(MaxRenderNodes)
    \/ WithChildrenAct({"A"}, MaxRenderNodes)
    \/ RenderChildrenAct
    \/ RenderCSSItemsAct(Initialized, SeqsUpTo(RenderedClasses, MaxRenderArgs), {0})
    \/ RenderScriptItemsAct(Initialized, SeqsUpTo(RenderedScripts, MaxRenderArgs), {0})

SpecRenders == Init /\ [][NextRenders]_vars

(***************************************************************************)
(* SpecURL: the pure function URL.  A string is the sequence of its        *)
(* characters; "U+017F" stands for the one character LATIN SMALL LETTER    *)
(* LONG S, which simple Unicode case folding puts in the class of s and S. *)
(***************************************************************************)
FailedSanitizationURL ==
    <<"a", "b", "o", "u", "t", ":", "i", "n", "v", "a", "l", "i", "d", "#", "T", "e", "m", "p", "l", "F", "a", "i", "l", "e", "d", "S", "a", "n", "i", "t", "i", "z", "a", "t", "i", "o", "n", "U", "R", "L">>

\* strings.IndexRune(s, r): the 0-based index of the first r in s, or -1.
IndexRune(s, r) ==
    IF \E i \in DOMAIN s : s[i] = r
    THEN (CHOOSE i \in DOMAIN s : s[i] = r /\ \A j \in 1 .. i - 1 : s[j] # r) - 1
    ELSE -1

\* strings.ContainsRune(s, r)
ContainsRune(s, r) == \E i \in DOMAIN s : s[i] = r

\* The representative of a character's class under simple case folding.
SimpleFold(c) ==
    CASE c \in {"H", "h"} -> "h"
      [] c \in {"T", "t"} -> "t"
      [] c \in {"P", "p"} -> "p"
      [] c \in {"S", "s", "U+017F"} -> "s"
      [] c \in {"M", "m"} -> "m"
      [] c \in {"A", "a"} -> "a"
      [] c \in {"I", "i"} -> "i"
      [] c \in {"L", "l"} -> "l"
      [] c \in {"O", "o"} -> "o"
      [] c \in {"D", "d"} -> "d"
      [] OTHER -> c

\* strings.EqualFold(s, t)
EqualExact(s, t) == s = t
EqualFold(s, t) ==
    /\ Len(s) = Len(t)
    /\ \A i \in DOMAIN s : SimpleFold(s[i]) = SimpleFold(t[i])

\* URL(s)
URL(s) ==
    LET i == IndexRune(s, ":") IN
    IF i >= 0 /\ ~ContainsRune(SubSeq(s, 1, i), "/")
    THEN LET protocol == SubSeq(s, 1, i) IN
         IF /\ ~EqualFold(protocol, <<"h", "t", "t", "p">>)
            /\ ~EqualFold(protocol, <<"h", "t", "t", "p", "s">>)
            /\ ~EqualFold(protocol, <<"m", "a", "i", "l", "t", "o">>)
         THEN FailedSanitizationURL
         ELSE s
    ELSE s

\* The inputs: up to MaxTokens pieces, one after the other.
URLTokens ==
    { <<"h", "t", "t", "p">>, <<"h", "T", "t", "P">>, <<"H", "T", "T", "P", "S">>, <<"m", "a", "i", "l", "t", "o">>, <<"d", "a", "t", "a">>,
      <<":">>, <<"/">>, <<"s">>, <<"U+017F">> }

RECURSIVE Flatten(_)
Flatten(pieces) == IF pieces = <<>> THEN <<>> ELSE Head(pieces) \o Flatten(Tail(pieces))

URLInputs == { Flatten(pieces) : pieces \in SeqsUpTo(URLTokens, MaxTokens) }

URLAct ==
    /\ last.op = "input"
    /\ last' = [op |-> "URL", s |-> last.s, ret |-> URL(last.s)]
    /\ UNCHANGED <<ctxVars, emitVars, httpVars, mwVars, tree>>

InitURL ==
    /\ ctxs = <<>>
    /\ heap = <<>>
    /\ out = <<>>
    /\ last \in { [op |-> "input", s |-> s] : s \in URLInputs }
    /\ delivered = <<>>
    /\ ncalls = 0
    /\ ch = NoOperation
    /\ resp = NoOperation
    /\ cssm = <<>>
    /\ reqCtx = 0
    /\ tree = NoOperation

NextURL == URLAct

SpecURL == InitURL /\ [][NextURL]_vars

(***************************************************************************)
(* SpecClass: the pure function Class.  A name is the sequence of its      *)
(* characters; the ranges of the pattern are ranges of character codes.    *)
(* "U+0060" stands for the one character GRAVE ACCENT, between _ and a.    *)
(***************************************************************************)
NameChars == {"-", ".", "9", "Z", "_", "U+0060", "a", " "}

\* The code point of a character.
CodePoint(c) ==
    CASE c = " " -> 32 [] c = "-" -> 45 [] c = "." -> 46 [] c = "0" -> 48
      [] c = "9" -> 57 [] c = "A" -> 65 [] c = "Z" -> 90 [] c = "_" -> 95
      [] c = "U+0060" -> 96 [] c = "a" -> 97 [] c = "z" -> 122

InRange(c, lo, hi) == CodePoint(lo) <= CodePoint(c) /\ CodePoint(c) <= CodePoint(hi)

\* The character classes of safeClassName: [_a-zA-Z] and [_-a-zA-Z0-9]; in
\* the second, _-a is the range from _ to a.
FirstClass(c) == c = "_" \/ InRange(c, "a", "z") \/ InRange(c, "A", "Z")
SecondClass(c) ==
    InRange(c, "_", "a") \/ InRange(c, "a", "z") \/ InRange(c, "A", "Z") \/ InRange(c, "0", "9")

\* safeClassName.MatchString(name): ^-?[_a-zA-Z]+[_-a-zA-Z0-9]*$
\* matched from position i with k characters of the first class taken so far.
RECURSIVE MatchFrom(_, _, _)
MatchFrom(name, i, k) ==
    IF i > Len(name) THEN k >= 1
    ELSE \/ FirstClass(name[i]) /\ MatchFrom(name, i + 1, k + 1)
         \/ k >= 1 /\ \A j \in i .. Len(name) : SecondClass(name[j])

safeClassNameMatchString(name) ==
    \/ MatchFrom(name, 1, 0)
    \/ Len(name) >= 1 /\ name[1] = "-" /\ MatchFrom(name, 2, 0)

fallbackClassName == ConstantCSSClass(<<"-", "-", "t", "e", "m", "p", "l", "-", "c", "s", "s", "-", "c", "l", "a", "s", "s", "-", "s", "a", "f", "e", "-", "n", "a", "m", "e">>)

\* SafeClass(name)
SafeClass(name) == ConstantCSSClass(name)

\* Class(name)
Class(name) ==
    IF ~safeClassNameMatchString(name) THEN fallbackClassName ELSE SafeClass(name)

ClassInputs == SeqsUpTo(NameChars, MaxNameLen)

ClassAct ==
    /\ last.op = "input"
    /\ last' = [op |-> "Class", name |-> last.name, ret |-> Class(last.name)]
    /\ UNCHANGED <<ctxVars, emitVars, httpVars, mwVars, tree>>

InitClass ==
    /\ ctxs = <<>>
    /\ heap = <<>>
    /\ out = <<>>
    /\ last \in { [op |-> "input", name |-> name] : name \in ClassInputs }
    /\ delivered = <<>>
    /\ ncalls = 0
    /\ ch = NoOperation
    /\ resp = NoOperation
    /\ cssm = <<>>
    /\ reqCtx = 0
    /\ tree = NoOperation

NextClass == ClassAct

SpecClass == InitClass /\ [][NextClass]_vars

(***************************************************************************)
(* SpecItems: calls of RenderCSSItems and RenderScriptItems, with and      *)
(* without a ledger in the context, on a sink that may fail; the record of *)
(* a call keeps its argument list.                                         *)
(***************************************************************************)
\* The inputs: two classes with a body and one without a CSS body; a
\* script with a function and one whose function is empty.
ItemClasses == { c \in Classes : ClassName(c) \in {"a", "b", "k"} }
ItemScripts == { x \in Scripts : x.Name \in {"a", "e"} }

RenderCSSItemsCallAct ==
    \E ctx \in Contexts, classes \in SeqsUpTo(ItemClasses, MaxItemArgs), failAt \in FailChoices :
        EmittedKeeping("RenderCSSItems", ctx, classes, failAt,
                       RenderCSSItems(heap, ctx, classes, failAt), BodiedClasses(classes),
                       classes)

RenderScriptItemsCallAct ==
    \E ctx \in Contexts, scripts \in SeqsUpTo(ItemScripts, MaxItemArgs), failAt \in FailChoices :
        EmittedKeeping("RenderScriptItems", ctx, scripts, failAt,
                       RenderScriptItems(heap, ctx, scripts, failAt), ScriptNames(scripts),
                       scripts)

\* The calls are made somewhere in a traversal that started from
\* InitializeRenderedItemsContext(context.Background()): its ledger holds
\* what the emitters have put there so far.
ItemLedgers ==
    SUBSET ({ "class_" \o c.ID : c \in { x \in ItemClasses : x.type = "ComponentCSSClass" } }
            \cup { "script_" \o x.Name : x \in ItemScripts })

InitItems ==
    /\ ctxs = << [parent |-> Background, key |-> contextKeyRenderedItems,
                  val |-> StringSetPtr(1), by |-> "InitializeRenderedItemsContext"] >>
    /\ heap \in { << ss >> : ss \in ItemLedgers }
    /\ out = <<>>
    /\ last = NoOperation
    /\ delivered = <<>>
    /\ ncalls = 0
    /\ ch = NoOperation
    /\ resp = NoOperation
    /\ cssm = <<>>
    /\ reqCtx = 0
    /\ tree = NoOperation

NextItems ==
    \/ ncalls < MaxFailCalls /\ RenderCSSItemsCallAct
    \/ ncalls < MaxFailCalls /\ RenderScriptItemsCallAct

SpecItems == InitItems /\ [][NextItems]_vars

(***************************************************************************)
(* SpecRetry: one traversal on a sink that may fail, whose caller goes on  *)
(* calling RenderCSSItems and RenderScriptItems after a call has failed.   *)
(***************************************************************************)
NextRetry ==
    \/ InitializeAct(MaxSetCtx)
    \/ RenderCSSItemsAct(Initialized, SeqsUpTo(RenderedClasses, MaxFailArgs), FailChoices)
    \/ RenderScriptItemsAct(Initialized, SeqsUpTo(RenderedScripts, MaxFailArgs), FailChoices)

SpecRetry == Init /\ [][NextRetry]_vars

(***************************************************************************)
(* Claims.                                                                 *)
(***************************************************************************)
IsEmitter(op) == op \in {"RenderCSSItems", "RenderScriptItems", "RenderCSS", "RenderScripts"}

\* The body the inputs give a class name.
BodyOf(n) == (CHOOSE c \in ComponentClasses : c.ID = n).Class

\* C1 as stated: on a sink whose writes succeed, the body of a class is
\* delivered at most once per ledger of a traversal, and once a call of
\* RenderCSSItems has been handed the class its body has been delivered
\* exactly once.  (Deliveries are only ever added, so what holds right after
\* each call holds from then on.)
C1_EveryClassExactlyOnce ==
    /\ \A k \in DOMAIN delivered : delivered[k] <= 1
    /\ last.op = "RenderCSSItems" =>
          \A n \in last.passed : Count(<<"RenderCSSItems", last.where, n>>) = 1

\* C1 amended: the same for every class whose CSS body is not empty; the
\* body of no class is delivered more than once.
C1_BodiedClassExactlyOnce ==
    /\ \A k \in DOMAIN delivered : delivered[k] <= 1
    /\ last.op = "RenderCSSItems" =>
          \A n \in last.passed :
              Len(BodyOf(n)) > 0 => Count(<<"RenderCSSItems", last.where, n>>) = 1

\* A second call is handed a class that an earlier call delivered, through
\* another context of the same traversal, and contributes nothing.
C1_Witness ==
    /\ last.op = "RenderCSSItems"
    /\ ncalls = 2
    /\ "a" \in last.passed
    /\ last.names = <<>>
    /\ last.writes = <<>>
    /\ last.ctx # Background /\ ctxs[last.ctx].by = "WithChildren"
    /\ Count(<<"RenderCSSItems", last.where, "a">>) = 1
    /\ out = <<styleOpen, BodyOf("a"), styleClose>>

\* The output of a tree of n instances of a component: first is what the
\* first instance emits ahead of its markup.
CountOf(seq, x) == Cardinality({ i \in DOMAIN seq : seq[i] = x })
Instances == Len(tree.starts)
Markups(n) == [i \in 1 .. n |-> instanceMarkup]
StyleBlock(class) == <<styleOpen, class.Class, styleClose>>
ScriptBlock(script) == <<scriptOpen, script.Function, scriptClose>>

\* C2 as stated: a tree of N >= 1 instances of one component under one
\* initialized context has exactly one <style> and one <script> block in
\* its output, both written by the first instance ahead of everything a
\* later instance writes.
C2_OneStyleOneScript ==
    (Len(heap) = 1 /\ Instances >= 1) =>
        /\ CountOf(out, styleOpen) = 1
        /\ CountOf(out, scriptOpen) = 1
        /\ out = StyleBlock(tree.comp.class) \o ScriptBlock(tree.comp.script)
                  \o Markups(Instances)
        /\ \A i \in 2 .. Instances : tree.starts[i] >= 6

\* C2 amended: the output holds exactly one <style> block when the CSS body
\* of the class is not empty and none when it is empty, exactly one <script>
\* block when the function of the script is not empty and none when it is
\* empty; the blocks are written by the first instance, ahead of its markup
\* and of everything a later instance writes.
C2_OneBlockPerNonEmptyBody ==
    (Len(heap) = 1 /\ Instances >= 1) =>
        LET class == tree.comp.class
            script == tree.comp.script
            first == (IF Len(class.Class) > 0 THEN StyleBlock(class) ELSE <<>>)
                     \o (IF Len(script.Function) > 0 THEN ScriptBlock(script) ELSE <<>>)
        IN  /\ CountOf(out, styleOpen) = (IF Len(class.Class) > 0 THEN 1 ELSE 0)
            /\ CountOf(out, scriptOpen) = (IF Len(script.Function) > 0 THEN 1 ELSE 0)
            /\ out = first \o Markups(Instances)
            /\ tree.starts[1] = 0
            /\ \A i \in 2 .. Instances : tree.starts[i] >= Len(first) + 1

\* Three instances of a component with a class and a script were rendered,
\* the last through a context derived from the initialized one.
C2_Witness ==
    /\ Len(heap) = 1
    /\ Instances = 3
    /\ Len(tree.comp.class.Class) > 0
    /\ Len(tree.comp.script.Function) > 0
    /\ last.op = "RenderInstance"
    /\ ctxs[last.ctx].by = "ClearChildren"
    /\ last.writes = <<instanceMarkup>>
    /\ out = StyleBlock(tree.comp.class) \o ScriptBlock(tree.comp.script) \o Markups(3)

\* The state of the children protocol at a context, read off the functions
\* that built its chain.
RECURSIVE ChildrenState(_)
ChildrenState(ctx) ==
    IF ctx = Background THEN "Unset"
    ELSE IF ctxs[ctx].by = "WithChildren" THEN "Set"
    ELSE IF ctxs[ctx].by = "ClearChildren" THEN "Cleared"
    ELSE ChildrenState(ctxs[ctx].parent)

\* C3: no step changes what GetChildren yields on a context that exists (the
\* parent, its other descendants, the parent after a child has rendered);
\* GetChildren on the context WithChildren(ctx, c) returned yields c; and a
\* context derived from ctx by another function yields what ctx yields.
C3_WithChildrenScoped ==
    [][ /\ \A c \in Contexts : GetChildrenIn(ctxs', c) = GetChildren(c)
        /\ last'.op = "WithChildren" =>
              GetChildrenIn(ctxs', last'.ret) = last'.arg
        /\ last'.op = "InitializeRenderedItemsContext" =>
              GetChildrenIn(ctxs', last'.ret) = GetChildrenIn(ctxs', last'.ctx)
      ]_vars

\* WithChildren has just given a child context its own children, below a
\* parent that has other children and a sibling derived from the parent.
C3_Witness ==
    /\ last.op = "WithChildren"
    /\ last.ctx # Background
    /\ GetChildren(last.ctx) \in UserComponents
    /\ last.arg \in UserComponents
    /\ last.arg # GetChildren(last.ctx)
    /\ GetChildren(last.ret) = last.arg
    /\ \E sib \in 1 .. Len(ctxs) :
          /\ sib # last.ret
          /\ ctxs[sib].parent = last.ctx
          /\ GetChildren(sib) = GetChildren(last.ctx)

\* C4: on a context whose children are Unset or Cleared, GetChildren
\* returns NopComponent, and rendering what it returned writes nothing and
\* returns no error.
C4_NopWhenUnsetOrCleared ==
    /\ \A c \in Contexts :
          ChildrenState(c) \in {"Unset", "Cleared"} => GetChildren(c) = NopComponent
    /\ (last.op = "RenderChildren" /\ ChildrenState(last.ctx) \in {"Unset", "Cleared"}) =>
          /\ last.got = NopComponent
          /\ last.writes = <<>>
          /\ last.err = NoError
          /\ ~last.panics

\* The children were rendered on a context cleared below a parent that has
\* children, after something had been written to the sink.
C4_Witness ==
    /\ last.op = "RenderChildren"
    /\ ChildrenState(last.ctx) = "Cleared"
    /\ GetChildren(ctxs[last.ctx].parent) \in UserComponents
    /\ last.got = NopComponent
    /\ out # <<>>

\* The tags an emitter wraps its buffer in.
OpenTag(op) == IF op \in {"RenderCSSItems", "RenderCSS"} THEN styleOpen ELSE scriptOpen
CloseTag(op) == IF op \in {"RenderCSSItems", "RenderCSS"} THEN styleClose ELSE scriptClose

\* C8: after a call of any emitter whose write number k failed, the call
\* returned the error of write k, the writes before k are all that reached
\* the sink and none was attempted after it; the call returned nil exactly
\* when no write it attempted failed, and then the whole block (or nothing,
\* for an empty buffer) reached the sink.
C8_FirstWriteErrorReturned ==
    IsEmitter(last.op) =>
        LET block == <<OpenTag(last.op), last.buffer, CloseTag(last.op)>>
            failed == Len(last.buffer) > 0 /\ last.failAt \in 1 .. 3
        IN  /\ failed =>
                  /\ last.err = WriteError(last.failAt)
                  /\ last.attempted = last.failAt
                  /\ last.writes = SubSeq(block, 1, last.failAt - 1)
            /\ (last.err = NoError) <=> ~failed
            /\ ~failed => last.writes = (IF Len(last.buffer) > 0 THEN block ELSE <<>>)
            /\ Len(out) >= Len(last.writes)
            /\ SubSeq(out, Len(out) - Len(last.writes) + 1, Len(out)) = last.writes

\* The legacy script emitter's second write failed: only the opening tag
\* is in the sink and the error of that write came back.
C8_Witness ==
    /\ last.op = "RenderScripts"
    /\ last.failAt = 2
    /\ last.err = WriteError(2)
    /\ out = <<scriptOpen>>

\* C9 as stated: with a context that carries no ledger, what one call of
\* RenderCSSItems or RenderScriptItems emitted is skipped by the later calls
\* with that context, so nothing is delivered twice through it.
C9_LazyLedgerSeenLater ==
    \A k \in DOMAIN delivered :
        (k[1] \in {"RenderCSSItems", "RenderScriptItems"} /\ k[2][1] = "context") =>
            delivered[k] <= 1

\* C10 as stated: in a traversal whose context carries both the combined
\* ledger and the legacy ledgers, a class delivered through RenderCSS or
\* RenderCSSItems is not delivered again through the other, and likewise
\* a script through RenderScripts or RenderScriptItems.
LedgerOf(ctx, key) == Value(ctx, key).addr
HasLedger(ctx, key) == Value(ctx, key).kind = "*StringSet"

C10_LegacyAndCombinedAgree ==
    \A c \in Contexts :
        /\ (HasLedger(c, contextKeyRenderedItems) /\ HasLedger(c, contextKeyRenderedClasses)) =>
              \A x \in ComponentClasses :
                  Count(<<"RenderCSS", OnLedger(LedgerOf(c, contextKeyRenderedClasses)), x.ID>>)
                  + Count(<<"RenderCSSItems", OnLedger(LedgerOf(c, contextKeyRenderedItems)), x.ID>>)
                  <= 1
        /\ (HasLedger(c, contextKeyRenderedItems) /\ HasLedger(c, contextKeyRenderedScripts)) =>
              \A x \in Scripts :
                  Count(<<"RenderScripts", OnLedger(LedgerOf(c, contextKeyRenderedScripts)), x.Name>>)
                  + Count(<<"RenderScriptItems", OnLedger(LedgerOf(c, contextKeyRenderedItems)), x.Name>>)
                  <= 1

\* C5 as stated: for a request on another path than the stylesheet's, no
\* call of RenderCSSItems or RenderCSS that the next handler makes with the
\* request context puts the (non-empty) body of a class registered with the
\* middleware into its <style> block.  (Stated for the calls that find
\* their ledger in the request context.)
Registered == { ClassName(c) : c \in Range(cssm) }

C5_RegisteredClassesSkipped ==
    (last.op \in {"RenderCSSItems", "RenderCSS"} /\ last.ctx = reqCtx /\ last.found) =>
        \A n \in Range(last.names) : n \in Registered => Len(BodyOf(n)) = 0

\* C6 as stated: the response to a request whose render succeeds is sent
\* with the configured status (200 when Status is 0) and with the
\* configured Content-Type in the header committed ahead of the body.
C6_ContentTypeSentWithStatus ==
    (last.op = "ServeHTTP" /\ ~ch.Component.fails) =>
        /\ resp.sent = <<ch.ContentType>>
        /\ resp.status = (IF ch.Status = 0 THEN StatusOK ELSE ch.Status)

\* C7 as stated: when Render fails and no ErrorHandler is configured, the
\* response is sent with status 500 and carries the failure message.
C7_DefaultErrorIs500 ==
    (last.op = "ServeHTTP" /\ ch.Component.fails /\ ~ch.ErrorHandler) =>
        /\ resp.status = StatusInternalServerError
        /\ componentHandlerErrorMessage \o "\n" \in Range(resp.body)

\* The names the ledger is asked about.
AllNames == SetNames \cup { ClassName(c) : c \in Classes } \cup { x.Name : x \in Scripts }

\* The names AddClass (AddScript) is called with on the ledger at addr in a
\* step that ends in the record l: the name of a direct call, or the names
\* an emitter took as new in its loop.
ClassAdds(l, addr) ==
    IF l.op = "AddClass" /\ l.addr = addr THEN {l.name}
    ELSE IF l.op = "RenderCSSItems" /\ l.where = OnLedger(addr) THEN Range(l.names)
    ELSE {}
ScriptAdds(l, addr) ==
    IF l.op = "AddScript" /\ l.addr = addr THEN {l.name}
    ELSE IF l.op = "RenderScriptItems" /\ l.where = OnLedger(addr) THEN Range(l.names)
    ELSE {}

\* C11: a new ledger contains no class and no script; on an existing
\* ledger a step makes ContainsClass(n) true exactly for the names AddClass
\* is called with and ContainsScript(n) exactly for the names AddScript is
\* called with, and changes neither otherwise (so each is true exactly when
\* its Add was called earlier); RenderScriptItems skips a script only when
\* ContainsScript held for its name before the call, whatever classes the
\* ledger holds, and RenderCSSItems likewise for classes.
C11_ClassAndScriptNamespaces ==
    [][ /\ \A addr \in (Len(heap) + 1) .. Len(heap') : \A n \in AllNames :
              ~ContainsClass(heap'[addr], n) /\ ~ContainsScript(heap'[addr], n)
        /\ \A addr \in 1 .. Len(heap) : \A n \in AllNames :
              /\ ContainsClass(heap'[addr], n) <=>
                    (ContainsClass(heap[addr], n) \/ n \in ClassAdds(last', addr))
              /\ ContainsScript(heap'[addr], n) <=>
                    (ContainsScript(heap[addr], n) \/ n \in ScriptAdds(last', addr))
        /\ (ncalls' # ncalls /\ last'.op = "RenderScriptItems" /\ last'.found) =>
              \A n \in last'.passed :
                  n \in Range(last'.names) <=> ~ContainsScript(heap[last'.where[2]], n)
        /\ (ncalls' # ncalls /\ last'.op = "RenderCSSItems" /\ last'.found) =>
              \A n \in last'.passed :
                  n \in Range(last'.names) <=> ~ContainsClass(heap[last'.where[2]], n)
      ]_vars

\* RenderScriptItems has just emitted the script a on a ledger that already
\* held the class a, put there by RenderCSSItems, and the class script_a.
C11_Witness ==
    /\ last.op = "RenderScriptItems"
    /\ last.found
    /\ last.names = <<"a">>
    /\ {"class_a", "class_script_a", "script_a"} \subseteq heap[last.where[2]]
    /\ Count(<<"RenderCSSItems", last.where, "a">>) = 1
    /\ Count(<<"RenderScriptItems", last.where, "a">>) = 1

\* The nodes on the chain of a context.
RECURSIVE Ancestors(_)
Ancestors(ctx) == IF ctx = Background THEN {} ELSE {ctx} \cup Ancestors(ctxs[ctx].parent)

\* The contexts InitializeRenderedItemsContext created: each starts a render.
Roots == { c \in 1 .. Len(ctxs) : ctxs[c].by = "InitializeRenderedItemsContext" }

\* Each render has a ledger of its own.
LedgersOwn ==
    \A r1, r2 \in Roots : r1 # r2 => ctxs[r1].val.addr # ctxs[r2].val.addr

\* The children GetChildren returns on a context were set on its own chain.
ChildrenOwn ==
    \A c \in Contexts :
        GetChildren(c) # NopComponent =>
            \E a \in Ancestors(c) :
                ctxs[a].by = "WithChildren" /\ ctxs[a].val.comp = GetChildren(c)

\* An emitter call of one render leaves the ledgers of the others as they
\* were, and skips exactly the inputs its own ledger held before the call.
RendersIsolated ==
    (ncalls' # ncalls /\ last'.op \in {"RenderCSSItems", "RenderScriptItems"} /\ last'.found) =>
        LET own == last'.where[2] IN
        /\ \A addr \in 1 .. Len(heap) : addr # own => heap'[addr] = heap[addr]
        /\ \A n \in last'.passed :
              n \in Range(last'.names) <=>
                  (IF last'.op = "RenderCSSItems" THEN ~ContainsClass(heap[own], n)
                   ELSE ~ContainsScript(heap[own], n))

\* The body the inputs give a script name.
FunctionOf(n) == (CHOOSE x \in Scripts : x.Name = n).Function
ContentOf(op, n) == IF op = "RenderCSSItems" THEN BodyOf(n) ELSE FunctionOf(n)

\* C12 as stated: the renders have ledgers of their own, the children a
\* render gets are its own, an emitter call of one render neither changes
\* nor consults the ledger of another, and each render has delivered every
\* class and script it passed to an emitter exactly once.
C12_RendersIndependent ==
    /\ [](/\ LedgersOwn
          /\ ChildrenOwn
          /\ \A k \in DOMAIN delivered : delivered[k] <= 1
          /\ last.op \in {"RenderCSSItems", "RenderScriptItems"} =>
                \A n \in last.passed : Count(<<last.op, last.where, n>>) = 1)
    /\ [][RendersIsolated]_vars

\* C12 amended: the same, with exactly one delivery for every class and
\* script whose body is not empty.
C12_RendersIndependentBodied ==
    /\ [](/\ LedgersOwn
          /\ ChildrenOwn
          /\ \A k \in DOMAIN delivered : delivered[k] <= 1
          /\ last.op \in {"RenderCSSItems", "RenderScriptItems"} =>
                \A n \in last.passed :
                    Len(ContentOf(last.op, n)) > 0 => Count(<<last.op, last.where, n>>) = 1)
    /\ [][RendersIsolated]_vars

\* The second of two renders has just emitted the class the first had
\* emitted, while the first has children the second does not see.
C12_Witness ==
    /\ Cardinality(Roots) = 2
    /\ last.op = "RenderCSSItems"
    /\ last.names = <<"a">>
    /\ \E r1, r2 \in Roots :
          /\ last.where = OnLedger(ctxs[r2].val.addr)
          /\ Count(<<"RenderCSSItems", OnLedger(ctxs[r1].val.addr), "a">>) = 1
          /\ Count(<<"RenderCSSItems", OnLedger(ctxs[r2].val.addr), "a">>) = 1
          /\ r1 # r2
          /\ \E c \in Contexts : r1 \in Ancestors(c) /\ GetChildren(c) \in UserComponents
          /\ GetChildren(r2) = NopComponent
    /\ out = StyleBlock(ComponentCSSClass("a", BodyOf("a"))) \o StyleBlock(ComponentCSSClass("a", BodyOf("a")))

\* Upper case of a character (of LONG S it is S).
ToUpper(c) ==
    CASE c = "h" -> "H" [] c = "t" -> "T" [] c = "p" -> "P" [] c = "m" -> "M"
      [] c = "a" -> "A" [] c = "i" -> "I" [] c = "l" -> "L" [] c = "o" -> "O"
      [] c = "d" -> "D" [] c \in {"s", "U+017F"} -> "S" [] OTHER -> c
SameIgnoringCase(s, t) == [i \in DOMAIN s |-> ToUpper(s[i])] = [i \in DOMAIN t |-> ToUpper(t[i])]
AcceptedSchemes == { <<"h", "t", "t", "p">>, <<"h", "t", "t", "p", "s">>, <<"m", "a", "i", "l", "t", "o">> }

\* The input has a colon, no slash ahead of its first colon, and the text
\* ahead of that colon is none of http, https, mailto ignoring case.
Rejected(s) ==
    \E f \in DOMAIN s :
        /\ s[f] = ":"
        /\ \A j \in 1 .. f - 1 : s[j] # ":" /\ s[j] # "/"
        /\ \A scheme \in AcceptedSchemes : ~SameIgnoringCase(SubSeq(s, 1, f - 1), scheme)

\* C13: URL(s) is the sentinel exactly when s is rejected, and s itself
\* in every other case.
C13_URLSentinelExactlyWhenRejected ==
    last.op = "URL" =>
        /\ (last.ret = FailedSanitizationURL) <=> Rejected(last.s)
        /\ ~Rejected(last.s) => last.ret = last.s

\* URL has accepted an https scheme in mixed case, ahead of a later colon
\* and a slash.
C13_Witness ==
    /\ last.op = "URL"
    /\ last.s = <<"H", "T", "T", "P", "S", ":", "/">>
    /\ last.ret = last.s

\* A name of the shape the pattern is described to accept: an optional
\* leading hyphen, then one or more letters or underscores, then letters,
\* digits, underscores or hyphens.
IsLetter(c) == c \in {"a", "Z"}
IsDigit(c) == c = "9"
WellFormedFrom(name, from) ==
    \E k \in from .. Len(name) :
        /\ \A i \in from .. k : IsLetter(name[i]) \/ name[i] = "_"
        /\ \A i \in k + 1 .. Len(name) :
              IsLetter(name[i]) \/ IsDigit(name[i]) \/ name[i] \in {"_", "-"}
WellFormed(name) ==
    \/ WellFormedFrom(name, 1)
    \/ Len(name) >= 1 /\ name[1] = "-" /\ WellFormedFrom(name, 2)

CarriesBody(op, x) == op = "RenderScriptItems" \/ x.type = "ComponentCSSClass"
NameOfInput(op, x) == IF op = "RenderScriptItems" THEN x.Name ELSE ClassName(x)
BodyOfInput(op, x) == IF op = "RenderScriptItems" THEN x.Function ELSE x.Class
InLedger(op, ss, n) == IF op = "RenderScriptItems" THEN ContainsScript(ss, n) ELSE ContainsClass(ss, n)

\* The positions of the inputs that contribute: they carry a body, their
\* name is not in the ledger ss, and no earlier input has their name.
Contributing(op, ss, args) ==
    { i \in DOMAIN args :
        /\ CarriesBody(op, args[i])
        /\ ~InLedger(op, ss, NameOfInput(op, args[i]))
        /\ \A j \in 1 .. i - 1 :
              ~(CarriesBody(op, args[j]) /\ NameOfInput(op, args[j]) = NameOfInput(op, args[i])) }

\* Their bodies, one after the other in input order.
RECURSIVE BodiesFrom(_, _, _, _)
BodiesFrom(op, args, positions, i) ==
    IF i > Len(args) THEN ""
    ELSE (IF i \in positions THEN BodyOfInput(op, args[i]) ELSE "")
         \o BodiesFrom(op, args, positions, i + 1)

\* The block a call is to write, given the ledger it found.
BlockOf(op, ss, args) ==
    LET body == BodiesFrom(op, args, Contributing(op, ss, args), 1)
    IN  IF body = "" THEN <<>> ELSE <<OpenTag(op), body, CloseTag(op)>>

\* The ledger a call recorded in l found in the heap h.
LedgerBefore(h, l) == IF l.found THEN h[l.where[2]] ELSE {}

ItemsCall == ncalls' # ncalls /\ last'.op \in {"RenderCSSItems", "RenderScriptItems"}

\* C15 as stated: a call of RenderCSSItems or RenderScriptItems appends to
\* the sink nothing when no input contributes a non-empty body, and
\* otherwise one opening tag, the bodies of the contributing inputs in
\* input order, and one closing tag.
C15_WholeBlockOrNothing ==
    [][ ItemsCall =>
          /\ last'.writes = BlockOf(last'.op, LedgerBefore(heap, last'), last'.args)
          /\ out' = out \o last'.writes
      ]_vars

\* C15 amended: the same when no write fails; when write number k of the
\* block fails, the call appends the k - 1 strings of the block ahead of it.
C15_WholeBlockUnlessWriteFails ==
    [][ ItemsCall =>
          LET block == BlockOf(last'.op, LedgerBefore(heap, last'), last'.args)
              k == last'.failAt
          IN  /\ last'.writes = (IF block # <<>> /\ k \in 1 .. 3
                                THEN SubSeq(block, 1, k - 1) ELSE block)
              /\ out' = out \o last'.writes
      ]_vars

\* A call was given a class already in the ledger and then a class not yet
\* in it, and wrote one block with the body of the second.
C15_Witness ==
    /\ last.op = "RenderCSSItems"
    /\ last.found
    /\ last.failAt = 0
    /\ Len(last.args) = 2
    /\ ClassName(last.args[1]) = "a" /\ ClassName(last.args[2]) = "b"
    /\ last.names = <<"b">>
    /\ {"class_a", "class_b"} \subseteq heap[last.where[2]]
    /\ last.writes = <<styleOpen, BodyOf("b"), styleClose>>
    /\ out = last.writes

\* Every context derived from one that carries a combined ledger resolves
\* to that same ledger.
OneLedgerPerTraversal ==
    \A c \in 1 .. Len(ctxs) :
        HasLedger(ctxs[c].parent, contextKeyRenderedItems) =>
            /\ HasLedger(c, contextKeyRenderedItems)
            /\ LedgerOf(c, contextKeyRenderedItems)
                  = LedgerOf(ctxs[c].parent, contextKeyRenderedItems)

\* InitializeRenderedItemsContext on a context that carries a ledger returns
\* that context and builds nothing.
InitializeKeepsLedger ==
    (last'.op = "InitializeRenderedItemsContext"
        /\ HasLedger(last'.ctx, contextKeyRenderedItems)) =>
            /\ last'.ret = last'.ctx
            /\ ctxs' = ctxs
            /\ heap' = heap

\* An instance writes the style block exactly when the ledger its context
\* resolves to did not hold the class (and the class has a body), whichever
\* context of the traversal put it there; likewise the script block; and
\* afterwards the ledger holds both.
EntriesSeenLater ==
    tree' # tree =>
        LET ledger == LedgerOf(last'.ctx, contextKeyRenderedItems)
            class == tree.comp.class
            script == tree.comp.script
        IN  /\ (CountOf(last'.writes, styleOpen) = 1) <=>
                  (~ContainsClass(heap[ledger], class.ID) /\ Len(class.Class) > 0)
            /\ (CountOf(last'.writes, scriptOpen) = 1) <=>
                  (~ContainsScript(heap[ledger], script.Name) /\ Len(script.Function) > 0)
            /\ ContainsClass(heap'[ledger], class.ID)
            /\ ContainsScript(heap'[ledger], script.Name)

\* C16: one traversal has one ledger.  Contexts derived through WithChildren
\* or ClearChildren resolve to the ledger of the context they derive from,
\* InitializeRenderedItemsContext never replaces or copies a ledger that is
\* there, and what one subtree added to the ledger is seen by the emitter
\* calls of every later subtree.
C16_OneLedgerPerTraversal ==
    /\ []OneLedgerPerTraversal
    /\ [][InitializeKeepsLedger /\ EntriesSeenLater]_vars

\* InitializeRenderedItemsContext was applied to a context derived through
\* WithChildren from the initialized one and returned it, after an instance
\* rendered in the one subtree had kept the instance of the other from
\* emitting again.
C16_Witness ==
    /\ last.op = "InitializeRenderedItemsContext"
    /\ last.ctx # Background
    /\ ctxs[last.ctx].by = "WithChildren"
    /\ last.ret = last.ctx
    /\ Len(heap) = 1
    /\ heap[1] = {"class_a", "script_a"}
    /\ Instances = 2
    /\ out = StyleBlock(tree.comp.class) \o ScriptBlock(tree.comp.script) \o Markups(2)

\* The nodes on the chain of a context that WithChildren or ClearChildren
\* built, and the nearest of them (a node is built after its parent, so the
\* nearest is the one built last).
ChildrenNodes(ctx) == { a \in Ancestors(ctx) : ctxs[a].by \in {"WithChildren", "ClearChildren"} }
Nearest(S) == CHOOSE a \in S : \A b \in S : b <= a

\* C17: on every context with a WithChildren or ClearChildren on its chain,
\* GetChildren returns the component of the nearest such node when
\* WithChildren built it and NopComponent when ClearChildren built it; and
\* right after WithChildren(ctx, c) or ClearChildren(ctx) the new context
\* returns c or NopComponent, whatever the ancestors of ctx supplied.
C17_NearestChildrenWin ==
    /\ \A c \in Contexts :
          ChildrenNodes(c) # {} =>
              LET n == Nearest(ChildrenNodes(c)) IN
              GetChildren(c) = (IF ctxs[n].by = "WithChildren" THEN ctxs[n].val.comp
                                ELSE NopComponent)
    /\ last.op = "WithChildren" => GetChildren(last.ret) = last.arg
    /\ last.op = "ClearChildren" => GetChildren(last.ret) = NopComponent
    /\ last.op = "RenderChildren" /\ ChildrenNodes(last.ctx) # {} =>
          LET n == Nearest(ChildrenNodes(last.ctx)) IN
          last.got = (IF ctxs[n].by = "WithChildren" THEN ctxs[n].val.comp ELSE NopComponent)

\* Children were set, cleared below that, and set again below the clearing;
\* the innermost context returns the inner children, not the outer ones.
C17_Witness ==
    /\ Len(ctxs) = 3
    /\ ctxs[1].by = "WithChildren" /\ ctxs[1].val.comp = "A" /\ ctxs[1].parent = Background
    /\ ctxs[2].by = "ClearChildren" /\ ctxs[2].parent = 1
    /\ ctxs[3].by = "WithChildren" /\ ctxs[3].val.comp = "B" /\ ctxs[3].parent = 2
    /\ GetChildren(1) = "A" /\ GetChildren(2) = NopComponent /\ GetChildren(3) = "B"
    /\ last.op = "RenderChildren" /\ last.ctx = 2 /\ last.got = NopComponent
    /\ out = <<"<A/>">>

\* C18: after a call of RenderCSSItems or RenderScriptItems on a ledger,
\* whether its writes succeeded or one of them failed, the ledger holds
\* every class (script) the call was passed, and the call put into its
\* buffer nothing of an input the ledger held before: a call whose inputs
\* were all in the ledger writes nothing and returns nil.
C18_LedgerKeepsFailedEntries ==
    [][ (ItemsCall /\ last'.found) =>
          LET ledger == last'.where[2] IN
          /\ \A n \in last'.passed :
                /\ InLedger(last'.op, heap'[ledger], n)
                /\ InLedger(last'.op, heap[ledger], n) => n \notin Range(last'.names)
          /\ (\A n \in last'.passed : InLedger(last'.op, heap[ledger], n)) =>
                /\ last'.writes = <<>>
                /\ last'.err = NoError
                /\ out' = out
      ]_vars

\* The first call failed on its second write, so only the opening tag is in
\* the sink; the second call, for the same class with a reliable sink,
\* wrote nothing and returned nil.
C18_Witness ==
    /\ ncalls = 2
    /\ last.op = "RenderCSSItems"
    /\ last.found
    /\ last.passed = {"a"}
    /\ last.failAt = 0
    /\ last.names = <<>>
    /\ last.writes = <<>>
    /\ last.err = NoError
    /\ "class_a" \in heap[last.where[2]]
    /\ out = <<styleOpen>>

\* C19 as stated: on every context GetChildren returns a component that
\* is not nil, and rendering what it returned does not fail.
C19_ChildrenAlwaysRenderable ==
    /\ \A c \in Contexts :
          /\ GetChildren(c) # NilComponent
          /\ ~Render(GetChildren(c)).panics
    /\ last.op = "RenderChildren" =>
          /\ last.got # NilComponent
          /\ ~last.panics

====
